---- MODULE Spec2Model ----
(***************************************************************************)
(* file_concierge.py: one walk of a directory tree that builds global      *)
(* extension statistics, a size index and per-directory rollups, followed  *)
(* by the reports and by duplicate resolution (size bucket, then MD5).     *)
(***************************************************************************)
EXTENDS Integers, Sequences, FiniteSets, TLC

(* ---------------------------------------------------------------------- *)
(* Bounds of the model                                                     *)
(* ---------------------------------------------------------------------- *)

\* Most directory entries one walk lists.
MaxFiles == 3

\* File contents are the identifiers 0..MaxContent.
MaxContent == 3

(* ---------------------------------------------------------------------- *)
(* The file system the walk meets                                          *)
(* ---------------------------------------------------------------------- *)

\* Directories are named relative to the scan root (dirpath.relative_to(root))
\* by their sequence of components; the root is the empty sequence, which
\* pathlib prints as '.'. File names are sequences of characters.
\* PathOrder holds every path dirpath / name the walk can list, in the
\* top-down order of os.walk: '.', a, a/b, c.
PathOrder ==
    << << <<>>,         <<"r", ".", "T">> >>,
       << <<"a">>,      <<"r", ".", "T">> >>,
       << <<"a", "b">>, <<"r", ".", "t">> >>,
       << <<"a", "b">>, <<"r">> >>,
       << <<"c">>,      <<"r", ".", "T">> >> >>

Paths == {PathOrder[i] : i \in 1..Len(PathOrder)}

DirOf(path) == path[1]

NameOf(path) == path[2]

Contents == 0..MaxContent

\* st_size of a file holding content c: contents 0, 1, 2 are equally long.
SizeOf(c) == 3 * (c \div 3) + 2

\* hashlib.md5 of content c. A digest has fewer values than there are
\* contents: 0 and 2 are different contents of one size with one digest.
Md5(c) == c % 2

\* The exceptions path.stat() raises that the walk catches.
StatErrors == {"FileNotFoundError", "PermissionError"}

\* The exceptions hash_file raises (all are OSError).
HashErrors == {"FileNotFoundError", "PermissionError", "OSError"}

(* ---------------------------------------------------------------------- *)
(* Helpers                                                                 *)
(* ---------------------------------------------------------------------- *)

Range(s) == {s[i] : i \in 1..Len(s)}

Min(a, b) == IF a < b THEN a ELSE b

\* str.rfind('.'): the last index of a dot (1-based), 0 when there is none.
RFindDot(name) ==
    LET dots == {i \in 1..Len(name) : name[i] = "."}
    IN  IF dots = {} THEN 0 ELSE CHOOSE i \in dots : \A j \in dots : j <= i

\* pathlib's PurePath.suffix: the name from its last dot on, unless that dot
\* is the first or the last character.
Suffix(name) ==
    LET i == RFindDot(name)
    IN  IF 1 < i /\ i < Len(name) THEN SubSeq(name, i, Len(name)) ELSE <<>>

LowerChar(ch) == IF ch = "T" THEN "t" ELSE IF ch = "R" THEN "r" ELSE ch

\* str.lower()
Lower(s) == [i \in 1..Len(s) |-> LowerChar(s[i])]

NoExt == <<"<no_ext>">>

\* ext = path.suffix.lower() or "<no_ext>"
ExtKey(path) ==
    LET e == Lower(Suffix(NameOf(path)))
    IN  IF e = <<>> THEN NoExt ELSE e

\* PurePath.parents of a relative directory: parent, grandparent, ..., '.';
\* empty for '.' itself.
Parents(rel_dir) ==
    [i \in 1..Len(rel_dir) |-> SubSeq(rel_dir, 1, Len(rel_dir) - i)]

\* Mutant of Ancestors: the file's own directory only, no rollup.
AncestorsOwnDirOnly(rel_dir) == <<rel_dir>>

\* The directory and all its ancestors, including the root '.'.
Ancestors(rel_dir) ==
    IF rel_dir = <<>> THEN << <<>> >> ELSE <<rel_dir>> \o Parents(rel_dir)

(* ---------------------------------------------------------------------- *)
(* defaultdict and insertion-ordered dict                                  *)
(* ---------------------------------------------------------------------- *)

\* A dict with no key. A defaultdict is a function whose domain is the set
\* of keys it holds.
EmptyMap == [k \in {} |-> 0]

\* lambda: {"count": 0, "size": 0}
NewStats == [count |-> 0, size |-> 0]

\* lambda: {"count": 0, "size": 0, "ext": defaultdict(...)}
NewDirStats == [count |-> 0, size |-> 0, ext |-> EmptyMap]

\* defaultdict.__getitem__: a missing key is inserted with the default.
GetOrCreate(d, k, default) ==
    IF k \in DOMAIN d THEN d ELSE [x \in DOMAIN d \cup {k} |-> IF x = k THEN default ELSE d[x]]

\* Mutant of AddStat: the count is not incremented.
AddStatSizeOnly(stats, ext, size) ==
    LET d == GetOrCreate(stats, ext, NewStats)
    IN  [d EXCEPT ![ext] = [count |-> @.count, size |-> @.size + size]]

\* stats[ext]["count"] += 1; stats[ext]["size"] += size
AddStat(stats, ext, size) ==
    LET d == GetOrCreate(stats, ext, NewStats)
    IN  [d EXCEPT ![ext] = [count |-> @.count + 1, size |-> @.size + size]]

\* The body of the loop over ancestors, for one ancestor.
AddDir(ds, anc, ext, size) ==
    LET d == GetOrCreate(ds, anc, NewDirStats)
    IN  [d EXCEPT ![anc] = [count |-> @.count + 1,
                            size  |-> @.size + size,
                            ext   |-> AddStat(@.ext, ext, size)]]

\* for anc in ancestors: ...
RECURSIVE RollUp(_, _, _, _)
RollUp(ds, ancs, ext, size) ==
    IF ancs = <<>> THEN ds
    ELSE RollUp(AddDir(ds, Head(ancs), ext, size), Tail(ancs), ext, size)

\* An insertion-ordered dict key -> list is a sequence of [key, vals].
ODKeys(d) == {d[i].key : i \in 1..Len(d)}

ODIndex(d, k) == CHOOSE i \in 1..Len(d) : d[i].key = k

\* d[k].append(v) on a defaultdict(list)
ODAppend(d, k, v) ==
    IF k \in ODKeys(d)
    THEN [d EXCEPT ![ODIndex(d, k)].vals = Append(@, v)]
    ELSE Append(d, [key |-> k, vals |-> <<v>>])

\* sorted(all_files, key=lambda x: x[1], reverse=True): stable, so records
\* of equal size keep their order.
RECURSIVE InsertDesc(_, _)
InsertDesc(sorted, rec) ==
    IF sorted = <<>> THEN <<rec>>
    ELSE IF Head(sorted)[2] < rec[2] THEN <<rec>> \o sorted
    ELSE <<Head(sorted)>> \o InsertDesc(Tail(sorted), rec)

RECURSIVE SortedDesc(_)
SortedDesc(files) ==
    IF files = <<>> THEN <<>>
    ELSE InsertDesc(SortedDesc(SubSeq(files, 1, Len(files) - 1)), files[Len(files)])

\* top_n of find_largest_files as main calls it.
TopN == 10

(* ---------------------------------------------------------------------- *)
(* State                                                                   *)
(* ---------------------------------------------------------------------- *)

VARIABLES
    argc,          \* len(sys.argv)
    root_kind,     \* what sys.argv[1] names: "missing", "file" or "dir"
    pc,            \* where main is
    exit_code,     \* the status of sys.exit, 0 while none was raised
    scan_called,   \* scan_directory was entered
    pos,           \* index in PathOrder of the entry os.walk listed last
    listed,        \* number of entries listed so far
    fs,            \* path -> content of the files whose stat succeeded
    skipped,       \* the paths whose stat raised
    all_files, ext_stats, size_index, dir_stats, total_files, total_size,
    largest,       \* result of find_largest_files
    candidates,    \* the size buckets find_duplicate_candidates kept
    bi, pi,        \* bucket and path the resolution is at
    hash_buckets,  \* digest -> paths, for the current bucket
    duplicates,    \* the groups found so far
    hashed,        \* the paths handed to hash_file
    unreadable     \* the paths whose hash_file raised

env == <<argc, root_kind, pos, listed, fs, skipped>>

result == <<all_files, ext_stats, size_index, dir_stats, total_files, total_size>>

resolver == <<candidates, bi, pi, hash_buckets, duplicates, hashed, unreadable>>

vars == <<pc, exit_code, scan_called, env, result, largest, resolver>>

RootKinds == {"missing", "file", "dir"}

Init ==
    /\ argc \in 1..2
    /\ root_kind \in RootKinds
    /\ pc = "main"
    /\ exit_code = 0
    /\ scan_called = FALSE
    /\ pos = 0
    /\ listed = 0
    /\ fs = EmptyMap
    /\ skipped = {}
    /\ all_files = <<>>
    /\ ext_stats = EmptyMap
    /\ size_index = <<>>
    /\ dir_stats = EmptyMap
    /\ total_files = 0
    /\ total_size = 0
    /\ largest = <<>>
    /\ candidates = <<>>
    /\ bi = 1
    /\ pi = 1
    /\ hash_buckets = <<>>
    /\ duplicates = <<>>
    /\ hashed = {}
    /\ unreadable = {}

(* ---------------------------------------------------------------------- *)
(* main: argument checks                                                   *)
(* ---------------------------------------------------------------------- *)

\* Mutant of InvalidRoot: only root.exists() is tested.
InvalidRootExistsOnly(kind) == kind = "missing"

\* root.exists()
Exists(kind) == kind # "missing"

\* root.is_dir()
IsDir(kind) == kind = "dir"

\* not root.exists() or not root.is_dir()
InvalidRoot(kind) == ~Exists(kind) \/ ~IsDir(kind)

\* len(sys.argv) < 2: usage, sys.exit(1)
MainUsage ==
    /\ pc = "main"
    /\ argc < 2
    /\ pc' = "exit"
    /\ exit_code' = 1
    /\ UNCHANGED <<scan_called, env, result, largest, resolver>>

\* the root does not exist or is no directory: sys.exit(1)
MainBadRoot ==
    /\ pc = "main"
    /\ ~(argc < 2)
    /\ InvalidRoot(root_kind)
    /\ pc' = "exit"
    /\ exit_code' = 1
    /\ UNCHANGED <<scan_called, env, result, largest, resolver>>

\* Mutant of ScanEnter: the root's entry is created up front.
ScanEnterWithRoot ==
    /\ pc = "main"
    /\ ~(argc < 2)
    /\ ~InvalidRoot(root_kind)
    /\ scan_called' = TRUE
    /\ all_files' = <<>>
    /\ ext_stats' = EmptyMap
    /\ size_index' = <<>>
    /\ dir_stats' = GetOrCreate(EmptyMap, <<>>, NewDirStats)
    /\ total_size' = 0
    /\ total_files' = 0
    /\ pc' = "walk"
    /\ UNCHANGED <<exit_code, env, largest, resolver>>

\* data = scan_directory(root): the accumulators are created empty.
ScanEnter ==
    /\ pc = "main"
    /\ ~(argc < 2)
    /\ ~InvalidRoot(root_kind)
    /\ scan_called' = TRUE
    /\ all_files' = <<>>
    /\ ext_stats' = EmptyMap
    /\ size_index' = <<>>
    /\ dir_stats' = EmptyMap
    /\ total_size' = 0
    /\ total_files' = 0
    /\ pc' = "walk"
    /\ UNCHANGED <<exit_code, env, largest, resolver>>

(* ---------------------------------------------------------------------- *)
(* scan_directory: the walk                                                *)
(* ---------------------------------------------------------------------- *)

\* os.walk can list one more entry, further on in listing order.
NextEntries == IF listed < MaxFiles THEN (pos + 1)..Len(PathOrder) ELSE {}

\* One iteration of the inner loop whose stat succeeds: the file is counted
\* in the totals, the global extension stats, the size index and the stats
\* of its directory and of every ancestor.
WalkFile ==
    /\ pc = "walk"
    /\ \E i \in NextEntries, c \in Contents :
        LET path == PathOrder[i]
            size == SizeOf(c)
            ext  == ExtKey(path)
        IN  /\ pos' = i
            /\ listed' = listed + 1
            /\ fs' = GetOrCreate(fs, path, c)
            /\ total_files' = total_files + 1
            /\ total_size' = total_size + size
            /\ all_files' = Append(all_files, <<path, size>>)
            /\ ext_stats' = AddStat(ext_stats, ext, size)
            /\ size_index' = ODAppend(size_index, size, path)
            /\ dir_stats' = RollUp(dir_stats, Ancestors(DirOf(path)), ext, size)
    /\ UNCHANGED <<pc, exit_code, scan_called, argc, root_kind, skipped,
                   largest, resolver>>

\* Mutant of WalkSkip: the skipped entry is still counted in total_files.
WalkSkipCounted ==
    /\ pc = "walk"
    /\ \E i \in NextEntries, err \in StatErrors :
        /\ pos' = i
        /\ listed' = listed + 1
        /\ skipped' = skipped \cup {PathOrder[i]}
    /\ total_files' = total_files + 1
    /\ UNCHANGED <<pc, exit_code, scan_called, argc, root_kind, fs,
                   all_files, ext_stats, size_index, dir_stats, total_size,
                   largest, resolver>>

\* One iteration whose stat raises FileNotFoundError or PermissionError:
\* continue.
WalkSkip ==
    /\ pc = "walk"
    /\ \E i \in NextEntries, err \in StatErrors :
        /\ pos' = i
        /\ listed' = listed + 1
        /\ skipped' = skipped \cup {PathOrder[i]}
    /\ UNCHANGED <<pc, exit_code, scan_called, argc, root_kind, fs, result,
                   largest, resolver>>

\* One iteration whose stat raises an OSError the except clause does not
\* name: the exception leaves scan_directory and main.
WalkCrash ==
    /\ pc = "walk"
    /\ \E i \in NextEntries :
        /\ pos' = i
        /\ listed' = listed + 1
    /\ pc' = "crashed"
    /\ exit_code' = 1
    /\ UNCHANGED <<scan_called, argc, root_kind, fs, skipped, result,
                   largest, resolver>>

\* os.walk is exhausted: scan_directory returns the six results.
ScanReturn ==
    /\ pc = "walk"
    /\ pc' = "ext_summary"
    /\ UNCHANGED <<exit_code, scan_called, env, result, largest, resolver>>

(* ---------------------------------------------------------------------- *)
(* The reports                                                             *)
(* ---------------------------------------------------------------------- *)

\* print_extension_summary iterates ext_stats.items().
PrintExtensionSummary ==
    /\ pc = "ext_summary"
    /\ pc' = "dir_summary"
    /\ UNCHANGED <<exit_code, scan_called, env, result, largest, resolver>>

\* Mutant of PrintDirectorySummary: the root is looked up by key, which a
\* defaultdict answers by inserting it.
PrintDirectorySummaryIndexRoot ==
    /\ pc = "dir_summary"
    /\ pc' = "largest"
    /\ dir_stats' = GetOrCreate(dir_stats, <<>>, NewDirStats)
    /\ UNCHANGED <<exit_code, scan_called, env, all_files, ext_stats,
                   size_index, total_files, total_size, largest, resolver>>

\* print_directory_summary: "No files found." when dir_stats is empty, else
\* it iterates dir_stats.items() and each stats.get("ext", {}).items().
PrintDirectorySummary ==
    /\ pc = "dir_summary"
    /\ pc' = "largest"
    /\ UNCHANGED <<exit_code, scan_called, env, result, largest, resolver>>

\* largest = find_largest_files(data["all_files"], top_n=10): sorted() builds
\* a new list.
FindLargestFiles ==
    /\ pc = "largest"
    /\ largest' = SubSeq(SortedDesc(all_files), 1, Min(TopN, Len(all_files)))
    /\ pc' = "print_largest"
    /\ UNCHANGED <<exit_code, scan_called, env, result, resolver>>

PrintLargestFiles ==
    /\ pc = "print_largest"
    /\ pc' = "find_dups"
    /\ UNCHANGED <<exit_code, scan_called, env, result, largest, resolver>>

(* ---------------------------------------------------------------------- *)
(* find_duplicate_candidates                                               *)
(* ---------------------------------------------------------------------- *)

\* Mutant of IsCandidate: every bucket is kept.
IsCandidateAnyBucket(bucket) == Len(bucket.vals) > 0

\* if len(paths) > 1
IsCandidate(bucket) == Len(bucket.vals) > 1

\* candidates = {size: paths for size, paths in size_index.items() if ...}
Candidates(si) == SelectSeq(si, IsCandidate)

\* Mutant of IsGroup: a pair is not enough.
IsGroupMoreThanTwo(hb) == Len(hb.vals) > 2

\* if len(dup_paths) > 1
IsGroup(hb) == Len(hb.vals) > 1

\* The groups one bucket adds to duplicates, in hash_buckets order.
Groups(hbs) ==
    LET kept == SelectSeq(hbs, IsGroup)
    IN  [i \in 1..Len(kept) |-> kept[i].vals]

InBucket == pc = "hashing" /\ bi <= Len(candidates)

CurrentPath == candidates[bi].vals[pi]

\* Mutant of FindDupStart: the candidates are also taken from the size
\* index while the walk is still running.
FindDupStartInsideWalk ==
    /\ pc \in {"walk", "find_dups"}
    /\ candidates' = Candidates(size_index)
    /\ bi' = 1
    /\ pi' = 1
    /\ hash_buckets' = <<>>
    /\ duplicates' = <<>>
    /\ pc' = IF pc = "walk" THEN "walk" ELSE "hashing"
    /\ UNCHANGED <<exit_code, scan_called, env, result, largest, hashed,
                   unreadable>>

\* duplicates = find_duplicate_candidates(data["size_index"]): the buckets
\* with more than one path are selected.
FindDupStart ==
    /\ pc = "find_dups"
    /\ candidates' = Candidates(size_index)
    /\ bi' = 1
    /\ pi' = 1
    /\ hash_buckets' = <<>>
    /\ duplicates' = <<>>
    /\ pc' = "hashing"
    /\ UNCHANGED <<exit_code, scan_called, env, result, largest, hashed,
                   unreadable>>

\* hash_file(path) returns the digest: the path joins the digest's list.
HashFileOk ==
    /\ InBucket
    /\ pi <= Len(candidates[bi].vals)
    /\ hashed' = hashed \cup {CurrentPath}
    /\ hash_buckets' = ODAppend(hash_buckets, Md5(fs[CurrentPath]), CurrentPath)
    /\ pi' = pi + 1
    /\ UNCHANGED <<pc, exit_code, scan_called, env, result, largest,
                   candidates, bi, duplicates, unreadable>>

\* Mutant of HashFileFail: the failed read is taken for an empty file and
\* the path joins the list of the empty content's digest.
HashFileFailEmptyDigest ==
    /\ InBucket
    /\ pi <= Len(candidates[bi].vals)
    /\ \E err \in HashErrors :
        /\ hashed' = hashed \cup {CurrentPath}
        /\ unreadable' = unreadable \cup {CurrentPath}
    /\ hash_buckets' = ODAppend(hash_buckets, Md5(0), CurrentPath)
    /\ pi' = pi + 1
    /\ UNCHANGED <<pc, exit_code, scan_called, env, result, largest,
                   candidates, bi, duplicates>>

\* hash_file(path) raises FileNotFoundError, PermissionError or another
\* OSError: continue.
HashFileFail ==
    /\ InBucket
    /\ pi <= Len(candidates[bi].vals)
    /\ \E err \in HashErrors :
        /\ hashed' = hashed \cup {CurrentPath}
        /\ unreadable' = unreadable \cup {CurrentPath}
    /\ pi' = pi + 1
    /\ UNCHANGED <<pc, exit_code, scan_called, env, result, largest,
                   candidates, bi, hash_buckets, duplicates>>

\* The paths of a bucket are done: the digest lists of two or more paths
\* are appended to duplicates.
BucketDone ==
    /\ InBucket
    /\ pi > Len(candidates[bi].vals)
    /\ duplicates' = duplicates \o Groups(hash_buckets)
    /\ bi' = bi + 1
    /\ pi' = 1
    /\ hash_buckets' = <<>>
    /\ UNCHANGED <<pc, exit_code, scan_called, env, result, largest,
                   candidates, hashed, unreadable>>

\* return duplicates
FindDupReturn ==
    /\ pc = "hashing"
    /\ bi > Len(candidates)
    /\ pc' = "print_dups"
    /\ UNCHANGED <<exit_code, scan_called, env, result, largest, resolver>>

\* print_duplicates(duplicates, max_groups=5); main returns.
PrintDuplicates ==
    /\ pc = "print_dups"
    /\ pc' = "done"
    /\ UNCHANGED <<exit_code, scan_called, env, result, largest, resolver>>

Next ==
    \/ MainUsage
    \/ MainBadRoot
    \/ ScanEnter
    \/ WalkFile
    \/ WalkSkip
    \/ WalkCrash
    \/ ScanReturn
    \/ PrintExtensionSummary
    \/ PrintDirectorySummary
    \/ FindLargestFiles
    \/ PrintLargestFiles
    \/ FindDupStart
    \/ HashFileOk
    \/ HashFileFail
    \/ BucketDone
    \/ FindDupReturn
    \/ PrintDuplicates

Spec == Init /\ [][Next]_vars

(* ---------------------------------------------------------------------- *)
(* What the properties are stated over                                     *)
(* ---------------------------------------------------------------------- *)

\* scan_directory has returned.
PostScan ==
    pc \in {"ext_summary", "dir_summary", "largest", "print_largest",
            "find_dups", "hashing", "print_dups", "done"}

\* find_duplicate_candidates has returned.
Resolved == pc \in {"print_dups", "done"}

\* The files whose stat succeeded.
Accessible == DOMAIN fs

\* Directory d is e or an ancestor of e.
IsPrefix(d, e) == Len(d) <= Len(e) /\ SubSeq(e, 1, Len(d)) = d

\* The accessible files located in D or in a descendant of D.
FilesUnder(D) == {p \in Accessible : IsPrefix(D, DirOf(p))}

RECURSIVE SumSizes(_)
SumSizes(S) ==
    IF S = {} THEN 0
    ELSE LET p == CHOOSE x \in S : TRUE
         IN  SizeOf(fs[p]) + SumSizes(S \ {p})

RECURSIVE SumCountOver(_, _)
SumCountOver(m, K) ==
    IF K = {} THEN 0
    ELSE LET k == CHOOSE x \in K : TRUE
         IN  m[k].count + SumCountOver(m, K \ {k})

RECURSIVE SumSizeOver(_, _)
SumSizeOver(m, K) ==
    IF K = {} THEN 0
    ELSE LET k == CHOOSE x \in K : TRUE
         IN  m[k].size + SumSizeOver(m, K \ {k})

\* The groups of duplicates that hold path p.
GroupsWith(p) == {g \in 1..Len(duplicates) : p \in Range(duplicates[g])}

\* p and q lie in one bucket of the size index.
SameBucket(p, q) ==
    \E i \in 1..Len(size_index) :
        p \in Range(size_index[i].vals) /\ q \in Range(size_index[i].vals)

(* ---------------------------------------------------------------------- *)
(* C1                                                                      *)
(* ---------------------------------------------------------------------- *)

\* C1: for every directory D of dir_stats, D.count and D.size are the number
\* and the summed size of the processed files in D or below it, and every
\* processed file has an entry for its directory and for each ancestor up
\* to the root.
C1_RollupAdditive ==
    /\ \A D \in DOMAIN dir_stats :
        /\ dir_stats[D].count = Cardinality(FilesUnder(D))
        /\ dir_stats[D].size = SumSizes(FilesUnder(D))
    /\ \A p \in Accessible : \A k \in 0..Len(DirOf(p)) :
        SubSeq(DirOf(p), 1, k) \in DOMAIN dir_stats

\* A file in the root, one in a and one in a/b have been rolled up.
C1_Witness ==
    /\ PostScan
    /\ DOMAIN dir_stats = {<<>>, <<"a">>, <<"a", "b">>}
    /\ dir_stats[<<>>].count = 3
    /\ dir_stats[<<"a">>].count = 2
    /\ dir_stats[<<"a", "b">>].count = 1

(* ---------------------------------------------------------------------- *)
(* C4                                                                      *)
(* ---------------------------------------------------------------------- *)

\* C4: in the global scope and in every directory's scope, the per-extension
\* counts sum to the scope's file count and the per-extension sizes sum to
\* the scope's total size, after every file of the walk.
C4_ExtSumsMatch ==
    /\ SumCountOver(ext_stats, DOMAIN ext_stats) = total_files
    /\ SumSizeOver(ext_stats, DOMAIN ext_stats) = total_size
    /\ \A D \in DOMAIN dir_stats :
        /\ SumCountOver(dir_stats[D].ext, DOMAIN dir_stats[D].ext) = dir_stats[D].count
        /\ SumSizeOver(dir_stats[D].ext, DOMAIN dir_stats[D].ext) = dir_stats[D].size

\* Two extension keys are in use, globally and in the root's own map.
C4_Witness ==
    /\ total_files >= 2
    /\ Cardinality(DOMAIN ext_stats) = 2
    /\ <<>> \in DOMAIN dir_stats
    /\ Cardinality(DOMAIN dir_stats[<<>>].ext) = 2

(* ---------------------------------------------------------------------- *)
(* C3                                                                      *)
(* ---------------------------------------------------------------------- *)

\* C3 as stated: after the scan of a tree with no file, the totals are 0,
\* there is no duplicate group, and dir_stats holds the root with count 0.
C3_EmptyTreeRootPresent ==
    (PostScan /\ listed = 0) =>
        /\ total_files = 0
        /\ total_size = 0
        /\ duplicates = <<>>
        /\ <<>> \in DOMAIN dir_stats
        /\ dir_stats[<<>>].count = 0

\* C3 amended: after the scan of a tree with no file, the totals are 0, there
\* is no duplicate group, and dir_stats is empty: no entry exists for the
\* root, which is created only by the first file rolled up into it.
C3_EmptyTreeNoRoot ==
    (PostScan /\ listed = 0) =>
        /\ total_files = 0
        /\ total_size = 0
        /\ duplicates = <<>>
        /\ dir_stats = EmptyMap

\* The whole run over an empty tree has finished.
C3_Witness == pc = "done" /\ listed = 0 /\ scan_called

(* ---------------------------------------------------------------------- *)
(* C5                                                                      *)
(* ---------------------------------------------------------------------- *)

\* C5: a path that is alone in its bucket of the size index is never handed
\* to hash_file and is in no duplicate group.
C5_SoleOccupantNeverHashed ==
    \A i \in 1..Len(size_index) :
        Len(size_index[i].vals) = 1 =>
            /\ size_index[i].vals[1] \notin hashed
            /\ GroupsWith(size_index[i].vals[1]) = {}

\* Resolution is over, a bucket of one path sits beside a hashed bucket.
C5_Witness ==
    /\ Resolved
    /\ hashed # {}
    /\ \E i \in 1..Len(size_index) : Len(size_index[i].vals) = 1

(* ---------------------------------------------------------------------- *)
(* C6                                                                      *)
(* ---------------------------------------------------------------------- *)

\* The records of all_files are exactly the accessible files, once each,
\* with their sizes.
AllFilesExact ==
    /\ Len(all_files) = Cardinality(Accessible)
    /\ \A p \in Accessible :
        \E i \in 1..Len(all_files) : all_files[i] = <<p, SizeOf(fs[p])>>

\* The size index holds every accessible file once, under its size, and
\* nothing else.
SizeIndexExact ==
    /\ \A i, j \in 1..Len(size_index) :
        size_index[i].key = size_index[j].key => i = j
    /\ \A i \in 1..Len(size_index) :
        /\ Range(size_index[i].vals) =
               {p \in Accessible : SizeOf(fs[p]) = size_index[i].key}
        /\ Len(size_index[i].vals) = Cardinality(Range(size_index[i].vals))
        /\ size_index[i].vals # <<>>
    /\ \A p \in Accessible : SameBucket(p, p)

\* The global extension stats are those of the accessible files.
ExtStatsExact ==
    /\ DOMAIN ext_stats = {ExtKey(p) : p \in Accessible}
    /\ \A e \in DOMAIN ext_stats :
        LET of_e == {p \in Accessible : ExtKey(p) = e}
        IN  /\ ext_stats[e].count = Cardinality(of_e)
            /\ ext_stats[e].size = SumSizes(of_e)

\* The directory stats are those of the accessible files.
DirStatsExact ==
    /\ DOMAIN dir_stats =
           UNION {{SubSeq(DirOf(p), 1, k) : k \in 0..Len(DirOf(p))} : p \in Accessible}
    /\ \A D \in DOMAIN dir_stats :
        /\ dir_stats[D].count = Cardinality(FilesUnder(D))
        /\ dir_stats[D].size = SumSizes(FilesUnder(D))

\* C6: an entry whose stat raises FileNotFoundError or PermissionError
\* changes none of the six results, and the results are at every moment
\* exactly the statistics of the entries whose stat succeeded: no skipped
\* path is in any of them.
C6_SkipLeavesStats ==
    /\ [][skipped' # skipped => UNCHANGED result]_vars
    /\ [](/\ skipped \cap Accessible = {}
          /\ total_files = Cardinality(Accessible)
          /\ total_size = SumSizes(Accessible)
          /\ AllFilesExact
          /\ SizeIndexExact
          /\ ExtStatsExact
          /\ DirStatsExact)

\* The scan returned after skipping an entry listed between two files it
\* recorded.
C6_Witness ==
    /\ PostScan
    /\ \E i, j, k \in 1..Len(PathOrder) :
        /\ i < j /\ j < k
        /\ PathOrder[i] \in Accessible
        /\ PathOrder[j] \in skipped
        /\ PathOrder[k] \in Accessible

(* ---------------------------------------------------------------------- *)
(* C9                                                                      *)
(* ---------------------------------------------------------------------- *)

\* C9: with no path argument, or a path that is missing or is no directory,
\* main can only exit with status 1: scan_directory is never entered, no
\* entry is listed and no statistic is produced.
C9_BadInvocationExits ==
    (argc < 2 \/ root_kind \in {"missing", "file"}) =>
        /\ pc \in {"main", "exit"}
        /\ pc = "main" => ENABLED (MainUsage \/ MainBadRoot)
        /\ pc = "exit" => exit_code # 0
        /\ ~scan_called
        /\ listed = 0
        /\ total_files = 0 /\ total_size = 0 /\ all_files = <<>>
        /\ ext_stats = EmptyMap /\ dir_stats = EmptyMap /\ size_index = <<>>
        /\ hashed = {} /\ duplicates = <<>>

\* main has exited on a path that exists but is no directory.
C9_Witness == pc = "exit" /\ argc >= 2 /\ root_kind = "file" /\ exit_code = 1

(* ---------------------------------------------------------------------- *)
(* C2                                                                      *)
(* ---------------------------------------------------------------------- *)

\* C2 as stated: of two files of one size bucket, those with identical
\* content are together in exactly one group and those with different
\* content are together in no group.
C2_GroupsByContent ==
    Resolved =>
        \A p, q \in Accessible :
            (p # q /\ SameBucket(p, q)) =>
                /\ fs[p] = fs[q] =>
                       Cardinality(GroupsWith(p) \cap GroupsWith(q)) = 1
                /\ fs[p] # fs[q] => GroupsWith(p) \cap GroupsWith(q) = {}

\* C2 amended: of two files of one size bucket, those with identical content
\* whose hash_file calls both succeeded are together in exactly one group,
\* and those whose MD5 digests differ are together in no group. (A path
\* whose hashing failed is in no group, and two different contents with one
\* digest are grouped.)
C2_GroupsByDigest ==
    Resolved =>
        \A p, q \in Accessible :
            (p # q /\ SameBucket(p, q)) =>
                /\ (fs[p] = fs[q] /\ p \notin unreadable /\ q \notin unreadable) =>
                       Cardinality(GroupsWith(p) \cap GroupsWith(q)) = 1
                /\ Md5(fs[p]) # Md5(fs[q]) => GroupsWith(p) \cap GroupsWith(q) = {}

\* Scenario B: two files of one content in a group, and a third of the same
\* size with another digest in none.
C2_Witness ==
    /\ Resolved
    /\ \E p, q, r \in Accessible :
        /\ p # q /\ fs[p] = fs[q]
        /\ GroupsWith(p) \cap GroupsWith(q) # {}
        /\ SameBucket(p, r) /\ Md5(fs[r]) # Md5(fs[p])
        /\ GroupsWith(r) = {}

(* ---------------------------------------------------------------------- *)
(* C7                                                                      *)
(* ---------------------------------------------------------------------- *)

\* The size index without the paths of X; a bucket left empty is gone.
RemovePaths(si, X) ==
    LET cut == [i \in 1..Len(si) |->
                   [key  |-> si[i].key,
                    vals |-> SelectSeq(si[i].vals, LAMBDA p : p \notin X)]]
    IN  SelectSeq(cut, LAMBDA b : b.vals # <<>>)

\* The groups of a size index all of whose paths can be read: within each
\* bucket, the paths of one digest in bucket order, when there are two or
\* more of them.
GroupsOfReadable(si) ==
    LET same(b, p) == SelectSeq(b.vals, LAMBDA q : Md5(fs[q]) = Md5(fs[p]))
    IN  {g \in UNION {{same(si[i], p) : p \in Range(si[i].vals)} :
                          i \in 1..Len(si)} :
             Len(g) >= 2}

\* C7: a path whose hashing raised is in no digest list and in no group, the
\* resolution never aborts, and the groups it returns are those of the size
\* index without the failing paths.
C7_HashFailureDropped ==
    /\ \A p \in unreadable :
        /\ GroupsWith(p) = {}
        /\ \A i \in 1..Len(hash_buckets) : p \notin Range(hash_buckets[i].vals)
    /\ pc = "crashed" => hashed = {}
    /\ pc = "hashing" =>
           ENABLED (HashFileOk \/ HashFileFail \/ BucketDone \/ FindDupReturn)
    /\ Resolved =>
           /\ Range(duplicates) = GroupsOfReadable(RemovePaths(size_index, unreadable))
           /\ Len(duplicates) = Cardinality(Range(duplicates))

\* A bucket of three: one path failed to hash, the other two are a group.
C7_Witness ==
    /\ Resolved
    /\ \E p \in unreadable, q \in Accessible :
        /\ SameBucket(p, q)
        /\ GroupsWith(q) # {}

(* ---------------------------------------------------------------------- *)
(* C8                                                                      *)
(* ---------------------------------------------------------------------- *)

\* C8: while the walk has not returned, no candidate bucket has been taken
\* from the size index and no file has been hashed; once resolution runs,
\* the walk adds nothing more, so the buckets being resolved are those of
\* the final size index.
C8_WalkBeforeResolution ==
    /\ pc \in {"main", "walk"} => (candidates = <<>> /\ hashed = {})
    /\ (pc = "hashing" \/ hashed # {}) =>
           /\ ~ENABLED (WalkFile \/ WalkSkip \/ WalkCrash)
           /\ candidates = Candidates(size_index)
           /\ SizeIndexExact

\* A file is being hashed after a walk that filled two size buckets.
C8_Witness ==
    /\ pc = "hashing"
    /\ hashed # {}
    /\ Len(size_index) >= 2

(* ---------------------------------------------------------------------- *)
(* C10                                                                     *)
(* ---------------------------------------------------------------------- *)

\* C10: once scan_directory has returned, no step of main changes all_files,
\* ext_stats, size_index, dir_stats (nested extension maps included),
\* total_files or total_size: no key is added and no counter changes.
C10_ResultFrozen == [][PostScan => UNCHANGED result]_vars

\* The run has finished with statistics and a duplicate group to report.
C10_Witness ==
    /\ pc = "done"
    /\ total_files >= 2
    /\ duplicates # <<>>
    /\ largest # <<>>

====
